---- MODULE Spec2Model ----
(***************************************************************************)
(* State-machine model of salsa_auth/views.py: the signup, login, verify   *)
(* and authenticate request handlers, the identity store they write, the   *)
(* outgoing mail, the supporter registry and each client's cookie jar.     *)
(* Every request is handled atomically (one action per handler).           *)
(***************************************************************************)
EXTENDS Integers, Sequences, FiniteSets, TLC

VARIABLES
    users,          \* auth_user table: sequence of User rows, pk = FirstPk + index
    zips,           \* salsa_auth UserZipCode table: sequence of rows
    outbox,         \* mails handed to send_mail, oldest first
    registry,       \* the external supporter registry (Salsa), a set of supporters
    cookies,        \* per client: the auth cookies it holds (at most one)
    last,           \* the request handled by the last step, its side effects in
                    \* order and its response (view "none": the step was no request)
    authRequested,  \* history: clients that have requested the authenticate route
    accepted,       \* history: clients that had a verify or a login accepted
    fpChanged       \* history: users whose fingerprint changed after their token was issued

vars == <<users, zips, outbox, registry, cookies, last,
          authRequested, accepted, fpChanged>>

\* ------------------------------------------------------------------ bounds

\* the last pk auth_user's sequence handed out before the first signup
FirstPk == 8
\* the latest time (in weeks) at which a request is made
MaxNow == 1

\* ------------------------------------------------------------ small values

None == "None"
Clients == {"c1"}
ValidEmails == {"a@b.com", "m@list.org"}
Emails == ValidEmails \cup {"not-an-email"}
ZipCodes == {"60601"}
FirstNames == {"A"}
NextValues == {None, "/next"}

\* settings.* read by the views (values are deployment configuration)
SALSA_AUTH_REDIRECT_LOCATION == "settings.SALSA_AUTH_REDIRECT_LOCATION"
SALSA_AUTH_COOKIE_NAME == "settings.SALSA_AUTH_COOKIE_NAME"
SALSA_AUTH_COOKIE_DOMAIN == "settings.SALSA_AUTH_COOKIE_DOMAIN"
AuthenticateRoute == "salsa_auth:authenticate"
CookieWeeks == 52

\* ---------------------------------------------------------------- results

Ok(v) == [exc |-> None, val |-> v]
Raise(e) == [exc |-> e, val |-> None]

\* ------------------------------------------------- uid codec (lines 81, 141)
\* Text is a sequence of one-character strings, bytes a sequence of 0..255.

B64 == << "A","B","C","D","E","F","G","H","I","J","K","L","M","N","O","P",
          "Q","R","S","T","U","V","W","X","Y","Z","a","b","c","d","e","f",
          "g","h","i","j","k","l","m","n","o","p","q","r","s","t","u","v",
          "w","x","y","z","0","1","2","3","4","5","6","7","8","9","-","_" >>

\* the 6-bit value of a character; -1 for a character outside the alphabet.
\* urlsafe_b64decode translates - and _ to + and /, so + and / decode too.
B64Index == [ch \in { B64[i] : i \in 1..64 } |-> (CHOOSE i \in 1..64 : B64[i] = ch) - 1]

B64Val(ch) ==
    IF ch = "+" THEN 62
    ELSE IF ch = "/" THEN 63
    ELSE IF ch \in DOMAIN B64Index THEN B64Index[ch]
    ELSE -1

RECURSIVE DecimalBytes(_)
\* force_bytes(user.pk): str(pk).encode(), the ASCII codes of the decimal digits
DecimalBytes(n) ==
    IF n < 10 THEN << 48 + n >>
    ELSE Append(DecimalBytes(n \div 10), 48 + (n % 10))

force_bytes(pk) == DecimalBytes(pk)

RECURSIVE B64EncodeBytes(_)
\* base64 of a byte string with the trailing = padding stripped
B64EncodeBytes(bs) ==
    IF Len(bs) = 0 THEN << >>
    ELSE IF Len(bs) = 1 THEN
        << B64[(bs[1] \div 4) + 1], B64[((bs[1] % 4) * 16) + 1] >>
    ELSE IF Len(bs) = 2 THEN
        << B64[(bs[1] \div 4) + 1],
           B64[((bs[1] % 4) * 16 + (bs[2] \div 16)) + 1],
           B64[((bs[2] % 16) * 4) + 1] >>
    ELSE
        << B64[(bs[1] \div 4) + 1],
           B64[((bs[1] % 4) * 16 + (bs[2] \div 16)) + 1],
           B64[((bs[2] % 16) * 4 + (bs[3] \div 64)) + 1],
           B64[(bs[3] % 64) + 1] >>
        \o B64EncodeBytes(SubSeq(bs, 4, Len(bs)))

urlsafe_base64_encode(bs) == B64EncodeBytes(bs)

RECURSIVE Sextets(_)
\* the alphabet characters of a text as 6-bit values; other characters are
\* discarded, as binascii.a2b_base64 does in its default non-strict mode
Sextets(s) ==
    IF Len(s) = 0 THEN << >>
    ELSE LET v == B64Val(s[1])
             rest == Sextets(SubSeq(s, 2, Len(s)))
         IN  IF v < 0 THEN rest ELSE << v >> \o rest

RECURSIVE B64DecodeSextets(_)
B64DecodeSextets(q) ==
    IF Len(q) < 2 THEN << >>
    ELSE IF Len(q) = 2 THEN << q[1] * 4 + (q[2] \div 16) >>
    ELSE IF Len(q) = 3 THEN
        << q[1] * 4 + (q[2] \div 16), (q[2] % 16) * 16 + (q[3] \div 4) >>
    ELSE
        << q[1] * 4 + (q[2] \div 16),
           (q[2] % 16) * 16 + (q[3] \div 4),
           (q[3] % 4) * 64 + q[4] >>
        \o B64DecodeSextets(SubSeq(q, 5, Len(q)))

\* django.utils.http.urlsafe_base64_decode: pads with len(s) % 4 '=' characters,
\* decodes, and turns binascii.Error into ValueError
urlsafe_base64_decode(s) ==
    LET q == Sextets(s)
        pad == Len(s) % 4
        need == IF Len(q) % 4 = 2 THEN 2 ELSE IF Len(q) % 4 = 3 THEN 1 ELSE 0
    IN  IF Len(q) % 4 = 1 \/ pad < need
        THEN Raise("ValueError")
        ELSE Ok(B64DecodeSextets(q))

\* force_text(bytes): UTF-8 decoding; ASCII bytes decode to themselves and a
\* byte outside ASCII is taken as an invalid sequence (DjangoUnicodeDecodeError,
\* a ValueError)
force_text(bs) ==
    IF \E i \in 1..Len(bs) : bs[i] >= 128
    THEN Raise("ValueError")
    ELSE Ok(bs)

RECURSIVE ParseInt(_)
\* int() of a non-empty string of ASCII digits, given as character codes
ParseInt(cs) ==
    IF Len(cs) = 0 THEN 0
    ELSE ParseInt(SubSeq(cs, 1, Len(cs) - 1)) * 10 + (cs[Len(cs)] - 48)

\* User.objects.get(pk=uid) on table `us` whose rows have pks base+1, base+2, ...:
\* ValueError for a pk that is no number, User.DoesNotExist for a number with no
\* row; the value is the row's pk
User_objects_get(us, base, uid) ==
    IF Len(uid) = 0 \/ \E i \in 1..Len(uid) : uid[i] < 48 \/ uid[i] > 57
    THEN Raise("ValueError")
    ELSE IF ParseInt(uid) \in (base + 1)..(base + Len(us))
         THEN Ok(ParseInt(uid))
         ELSE Raise("DoesNotExist")

\* ------------------------------------------------------------- identity
\* A User row: the fields of django.contrib.auth.models.User the views touch.

\* User.objects.create(**form_data, username=...): password is the field's
\* default, the empty string; is_active defaults to True
User_objects_create(email, first_name) ==
    [email |-> email, first_name |-> first_name, password |-> "", is_active |-> TRUE]

\* user.set_unusable_password(): password becomes "!" followed by random characters
set_unusable_password(user) == [user EXCEPT !.password = "!"]

\* user.save() skipped: the row keeps what create() wrote
user_save_skipped(created, user) == created

\* user.save(): the row becomes the in-memory object
user_save(created, user) == user

\* the row _make_user leaves in auth_user
_make_user(email, first_name) ==
    user_save(User_objects_create(email, first_name),
              set_unusable_password(User_objects_create(email, first_name)))

\* ------------------------------------------------ activation token (tokens.py)

\* the mutable state a token is bound to
fingerprint(user) == << user.password, user.is_active >>

\* account_activation_token.make_token(user): a keyed hash of the user's id and
\* fingerprint, modelled by the pair it hashes
make_token(pk, user) == [uid |-> pk, fp |-> fingerprint(user)]

\* account_activation_token.check_token(user, token): recompute and compare
check_token(pk, user, token) == token = make_token(pk, user)

NoToken == [uid |-> 0, fp |-> << "", FALSE >>]
BogusToken == [uid |-> 0, fp |-> << "bogus", FALSE >>]

\* ---------------------------------------------------------- forms (forms.py)

FieldError(field, message) == [field |-> field, message |-> message]

\* SignUpForm(data).errors: email well-formed and not taken, zip_code present
SignUpForm_errors(us, email, zip_code) ==
    (IF email \notin ValidEmails
       THEN { FieldError("email", "Enter a valid email address.") }
       ELSE IF \E i \in 1..Len(us) : us[i].email = email
            THEN { FieldError("email", "A user with this email already exists.") }
            ELSE {})
    \cup
    (IF zip_code = None
       THEN { FieldError("zip_code", "This field is required.") }
       ELSE {})

\* LoginForm(data).errors: email well-formed
LoginForm_errors(email) ==
    IF email \notin ValidEmails
    THEN { FieldError("email", "Enter a valid email address.") }
    ELSE {}

\* ------------------------------------------------- supporter registry (salsa.py)

Supporter(email, hasFirstName, firstName) ==
    [Email |-> email, hasFirstName |-> hasFirstName, firstName |-> firstName]

\* salsa_client.get_supporter(email): the supporters with that email (none: falsy)
get_supporter(reg, email) == { s \in reg : s.Email = email }

\* salsa_client.put_supporter(user): upsert by email
put_supporter(reg, user) ==
    { s \in reg : s.Email # user.email }
        \cup { Supporter(user.email, TRUE, user.first_name) }

\* ------------------------------------------------------ requests, responses

Effect(op, msg, name, pk) == [op |-> op, msg |-> msg, name |-> name, pk |-> pk]
Message(msg, name) == Effect("add_message", msg, name, 0)

\* a request: the path segments of verify, the POST fields of the forms
\* (None: no such key), and the time at which it is handled
Request(uidb64, token, email, zip_code, next, time) ==
    [uidb64 |-> uidb64, token |-> token, email |-> email,
     zip_code |-> zip_code, next |-> next, time |-> time]

\* JsonResponse(response); errors = {} stands for a response without the key
JsonResponse(redirect_url, errors) ==
    [kind |-> "JsonResponse", redirect_url |-> redirect_url, errors |-> errors,
     location |-> None, set_cookie |-> {}, exc |-> None]

HttpResponseRedirect(location, set_cookie) ==
    [kind |-> "HttpResponseRedirect", redirect_url |-> None, errors |-> {},
     location |-> location, set_cookie |-> set_cookie, exc |-> None]

\* an exception that leaves the view
Raised(exc) ==
    [kind |-> "raised", redirect_url |-> None, errors |-> {},
     location |-> None, set_cookie |-> {}, exc |-> exc]

Exchange(view, client, req, effects, resp) ==
    [view |-> view, client |-> client, req |-> req, effects |-> effects, resp |-> resp]

NoRequest == Request(<< >>, NoToken, None, None, None, 0)
NoExchange == Exchange("none", None, NoRequest, << >>, Raised(None))

\* render_to_response answering with a redirect even when the form has errors
render_to_response_no_errors(redirect_url, errors, next) ==
    IF next = None
    THEN Raised("MultiValueDictKeyError")
    ELSE JsonResponse(IF redirect_url # None THEN redirect_url ELSE next, errors)

\* JSONFormResponseMixin.render_to_response. redirect_url is the view's class
\* attribute (None: the view has none), next is request.POST's 'next' (None: no
\* such key). getattr's third argument is evaluated before getattr is called,
\* so request.POST['next'] is read whether or not the attribute exists.
render_to_response(redirect_url, errors, next) ==
    IF errors # {}
    THEN JsonResponse(None, errors)
    ELSE IF next = None
         THEN Raised("MultiValueDictKeyError")
         ELSE JsonResponse(IF redirect_url # None THEN redirect_url ELSE next, {})

\* ------------------------------------------------------------------ Init

Init ==
    /\ users = << >>
    /\ zips = << >>
    /\ outbox = << >>
    /\ registry = { Supporter("m@list.org", FALSE, "") }
    /\ cookies = [c \in Clients |-> {}]
    /\ last = NoExchange
    /\ authRequested = {}
    /\ accepted = {}
    /\ fpChanged = {}

\* the row with primary key pk, and the primary keys in use
Row(us, pk) == us[pk - FirstPk]
Pks(us) == { FirstPk + i : i \in 1..Len(us) }

\* ---------------------------------------------------------------- signup

\* _send_verification_email: what the mail carries (lines 81-93)
_send_verification_email(pk, user) ==
    [to |-> user.email,
     uid |-> urlsafe_base64_encode(force_bytes(pk)),
     token |-> make_token(pk, user)]

\* the outcomes of the external calls of one signup: fault names the call
\* that raises ("zip": UserZipCode.objects.create, "mail": send_mail), if any
Faults == {"none", "zip", "mail"}

\* SignUpForm.post with an invalid form: FormView.post -> form_invalid
SignUpInvalid(c, email, first_name, zip_code, next) ==
    /\ SignUpForm_errors(users, email, zip_code) # {}
    /\ last' = Exchange("signup", c, Request(<< >>, NoToken, email, zip_code, next, 0), << >>,
                        render_to_response(None, SignUpForm_errors(users, email, zip_code), next))
    /\ UNCHANGED <<users, zips, outbox, registry, cookies,
                   authRequested, accepted, fpChanged>>

\* SignUpForm.post with a valid form: FormView.post -> form_valid
SignUpValid(c, email, first_name, zip_code, next, fault) ==
    LET pk == FirstPk + Len(users) + 1
        user == set_unusable_password(User_objects_create(email, first_name))
        req == Request(<< >>, NoToken, email, zip_code, next, 0)
        mail == _send_verification_email(pk, user)
        thanks == << Message("Thanks for signing up!", ""),
                     Message("Please check your email for an activation link.", "") >>
    IN  /\ SignUpForm_errors(users, email, zip_code) = {}
        /\ users' = Append(users, _make_user(email, first_name))
        /\ IF fault = "zip"
           THEN /\ UNCHANGED <<zips, outbox>>
                /\ last' = Exchange("signup", c, req, << >>, Raised("DatabaseError"))
           ELSE /\ zips' = Append(zips, [user |-> pk, zip_code |-> zip_code])
                /\ IF fault = "mail"
                   THEN /\ UNCHANGED outbox
                        /\ last' = Exchange("signup", c, req, << >>, Raised("SMTPException"))
                   ELSE /\ outbox' = Append(outbox, mail)
                        /\ last' = Exchange("signup", c, req,
                                            << Effect("send_mail", "", user.email, pk) >> \o thanks,
                                            render_to_response(None, {}, next))
        /\ UNCHANGED <<registry, cookies, authRequested, accepted, fpChanged>>

\* ----------------------------------------------------------------- login

LoginRedirectUrl == "/salsa/authenticate"

NotSubscribed == "<strong>{email}</strong> is not subscribed to the BGA mailing list."

\* LoginForm.post (lines 105-132)
LoginForm_post(c, email, next) ==
    LET req == Request(<< >>, NoToken, email, None, next, 0)
        user == get_supporter(registry, email)
        greeting_name == IF \E s \in user : s.hasFirstName
                         THEN (CHOOSE s \in user : s.hasFirstName).firstName
                         ELSE email
    IN  /\ IF LoginForm_errors(email) # {}
           THEN /\ last' = Exchange("login", c, req, << >>,
                                    render_to_response(LoginRedirectUrl, LoginForm_errors(email), next))
                /\ UNCHANGED accepted
           ELSE IF user = {}
           THEN /\ last' = Exchange("login", c, req, << >>,
                                    render_to_response(LoginRedirectUrl,
                                                       { FieldError("email", NotSubscribed) }, next))
                /\ UNCHANGED accepted
           ELSE /\ last' = Exchange("login", c, req,
                                    << Message("Welcome back, {}!", greeting_name) >>,
                                    render_to_response(LoginRedirectUrl, {}, next))
                /\ accepted' = accepted \cup {c}
        /\ UNCHANGED <<users, zips, outbox, registry, cookies,
                       authRequested, fpChanged>>

\* ---------------------------------------------------------------- verify

\* the exceptions of the lookup that leave user = None, without ValueError
CaughtNoValueError == {"TypeError", "OverflowError", "DoesNotExist"}

\* except (TypeError, ValueError, OverflowError, User.DoesNotExist) (line 143)
Caught == {"TypeError", "ValueError", "OverflowError", "DoesNotExist"}

\* lines 141-142: force_text(urlsafe_base64_decode(uidb64)), then User.objects.get
Lookup(us, uidb64) ==
    LET bytes == urlsafe_base64_decode(uidb64)
    IN  IF bytes.exc # None THEN Raise(bytes.exc)
        ELSE LET uid == force_text(bytes.val)
             IN  IF uid.exc # None THEN Raise(uid.exc)
                 ELSE User_objects_get(us, FirstPk, uid.val)

\* link_valid computed from the user alone; pk is the user's, 0 for None
link_valid_unchecked(us, pk, token) == pk # 0

\* link_valid (line 146); pk is the user's, 0 for None
link_valid(us, pk, token) ==
    pk # 0 /\ check_token(pk, Row(us, pk), token)

InvalidLinkMessages ==
    << Message("Invalid activation link.", ""),
       Message("Think you received this message in error?", "") >>

\* the failure path sent to the authenticate route
InvalidLinkRedirectToAuthenticate == AuthenticateRoute

\* redirect(settings.SALSA_AUTH_REDIRECT_LOCATION) of the failure path (line 173)
InvalidLinkRedirect == SALSA_AUTH_REDIRECT_LOCATION

\* the auth_user table after a verify that marks the user it accepted
VerifyUsersConsumed(us, pk, token) ==
    IF link_valid(us, pk, token)
    THEN [us EXCEPT ![pk - FirstPk].is_active = FALSE]
    ELSE us

\* the auth_user table after VerifyEmail.get: the view writes no row
VerifyUsers(us, pk, token) == us

\* VerifyEmail.get (lines 136-173)
VerifyEmail_get(c, uidb64, token) ==
    LET req == Request(uidb64, token, None, None, None, 0)
        found == Lookup(users, uidb64)
        pk == IF found.exc = None THEN found.val ELSE 0
    IN  /\ users' = VerifyUsers(users, pk, token)
        /\ IF found.exc # None /\ found.exc \notin Caught
           THEN /\ last' = Exchange("verify", c, req, << >>, Raised(found.exc))
                /\ UNCHANGED <<registry, accepted>>
           ELSE IF link_valid(users, pk, token)
           THEN /\ registry' = put_supporter(registry, Row(users, pk))
                /\ last' = Exchange("verify", c, req,
                                    << Effect("put_supporter", "", Row(users, pk).email, pk),
                                       Message("Welcome back, {}!", Row(users, pk).first_name) >>,
                                    HttpResponseRedirect(AuthenticateRoute, {}))
                /\ accepted' = accepted \cup {c}
           ELSE /\ last' = Exchange("verify", c, req, InvalidLinkMessages,
                                    HttpResponseRedirect(InvalidLinkRedirect, {}))
                /\ UNCHANGED <<registry, accepted>>
        /\ UNCHANGED <<zips, outbox, cookies, authRequested, fpChanged>>

\* ---------------------------------------------------------- authenticate

Cookie(name, value, expires, domain) ==
    [name |-> name, value |-> value, expires |-> expires, domain |-> domain]

\* the cookie without its expires argument taken into account
AuthCookieNow(t) ==
    Cookie(SALSA_AUTH_COOKIE_NAME, "true", t, SALSA_AUTH_COOKIE_DOMAIN)

\* the cookie of lines 182-187; t is datetime.datetime.now(), in weeks
AuthCookie(t) ==
    Cookie(SALSA_AUTH_COOKIE_NAME, "true", t + CookieWeeks, SALSA_AUTH_COOKIE_DOMAIN)

\* Authenticate.get (lines 179-193), handled at time t
Authenticate_get(c, t) ==
    /\ cookies' = [cookies EXCEPT ![c] = { AuthCookie(t) }]
    /\ last' = Exchange("authenticate", c, Request(<< >>, NoToken, None, None, None, t),
                        << Message("We've logged you in so you can continue using the database.", "") >>,
                        HttpResponseRedirect(SALSA_AUTH_REDIRECT_LOCATION, { AuthCookie(t) }))
    /\ authRequested' = authRequested \cup {c}
    /\ UNCHANGED <<users, zips, outbox, registry, accepted, fpChanged>>

\* ------------------------------------------------------------ environment

\* something other than these views changes a user's fingerprint: the account
\* is deactivated or reactivated
ChangeFingerprint(pk) ==
    /\ pk \in Pks(users)
    /\ users' = [users EXCEPT ![pk - FirstPk].is_active = ~users[pk - FirstPk].is_active]
    /\ fpChanged' = IF \E i \in 1..Len(outbox) : outbox[i].token.uid = pk
                    THEN fpChanged \cup {pk}
                    ELSE fpChanged
    /\ last' = NoExchange
    /\ UNCHANGED <<zips, outbox, registry, cookies, authRequested, accepted>>

\* ------------------------------------------------------------------ Next

\* the uidb64 path segments tried: the encodings of the pks in use and of the
\* next one, a text of one character, the byte 0xff, the text "a"
UidInputs ==
    { urlsafe_base64_encode(force_bytes(FirstPk + n)) : n \in 1..(Len(users) + 1) }
        \cup { << "M" >>, << "_", "w" >>, << "Y", "Q" >> }

\* the token path segments tried: every token mailed so far, and one never issued
TokenInputs == { outbox[i].token : i \in 1..Len(outbox) } \cup { BogusToken }

Next ==
    \/ \E c \in Clients, email \in Emails, first_name \in FirstNames,
          zip_code \in ZipCodes \cup {None}, next \in NextValues :
            SignUpInvalid(c, email, first_name, zip_code, next)
    \/ \E c \in Clients, email \in Emails, first_name \in FirstNames,
          zip_code \in ZipCodes \cup {None}, next \in NextValues, fault \in Faults :
            SignUpValid(c, email, first_name, zip_code, next, fault)
    \/ \E c \in Clients, email \in Emails, next \in NextValues :
            LoginForm_post(c, email, next)
    \/ \E c \in Clients, uidb64 \in UidInputs, token \in TokenInputs :
            VerifyEmail_get(c, uidb64, token)
    \/ \E c \in Clients, t \in 0..MaxNow : Authenticate_get(c, t)
    \/ \E pk \in Pks(users) : ChangeFingerprint(pk)

Spec == Init /\ [][Next]_vars

\* ================================================================ claims

\* what a verify request finds, read off the table it runs against
LinkUser(us, uidb64) == Lookup(us, uidb64)
GoodLink(us, uidb64, token) ==
    /\ LinkUser(us, uidb64).exc = None
    /\ token = make_token(LinkUser(us, uidb64).val, Row(us, LinkUser(us, uidb64).val))
BadLink(us, uidb64, token) == ~GoodLink(us, uidb64, token)

PutEffects(effects) == SelectSeq(effects, LAMBDA e : e.op = "put_supporter")
IssuedTokens == { outbox[i].token : i \in 1..Len(outbox) }
InvalidResponse == HttpResponseRedirect(SALSA_AUTH_REDIRECT_LOCATION, {})

\* C1: a verify request whose uidb64 does not decode, or decodes to the id of no
\* user, or whose token does not check against the user's current fingerprint,
\* does not raise, writes no User or UserZipCode, calls put_supporter not at
\* all, sets no cookie, queues the generic 'Invalid activation link.' error and
\* redirects to settings.SALSA_AUTH_REDIRECT_LOCATION; nothing but the record of
\* the exchange changes, so repeating the link changes nothing either.
Thm_C1 ==
    [][ (last'.view = "verify" /\ BadLink(users, last'.req.uidb64, last'.req.token))
        => /\ last'.resp = InvalidResponse
           /\ last'.effects = InvalidLinkMessages
           /\ UNCHANGED <<users, zips, outbox, registry, cookies,
                          authRequested, accepted, fpChanged>> ]_vars

Wit_C1 ==
    /\ last.view = "verify"
    /\ Len(users) > 0
    /\ LinkUser(users, last.req.uidb64).exc = "ValueError"
    /\ last.resp = InvalidResponse

\* C2 (as stated): a client holds the auth cookie only if it has had a verify
\* or a login accepted.
CE_C2 == \A c \in Clients : cookies[c] # {} => c \in accepted

\* C2 (amended): a client holds the auth cookie only if it has requested the
\* authenticate route, which sets it unconditionally; no signup, login or
\* verify response sets it, and login and verify point the client to the
\* authenticate route only when they accepted.
Thm_C2 ==
    /\ \A c \in Clients : cookies[c] # {} => c \in authRequested
    /\ last.resp.set_cookie # {} => last.view = "authenticate"
    /\ (last.view = "verify" /\ last.resp.location = AuthenticateRoute)
            => last.client \in accepted
    /\ (last.view = "login" /\ last.resp.redirect_url = LoginRedirectUrl)
            => last.client \in accepted

Wit_C2 ==
    \E c \in Clients : cookies[c] # {} /\ c \in authRequested /\ c \notin accepted
                       /\ Len(users) > 0

OwnerPk(mail) == CHOOSE pk \in Pks(users) : Row(users, pk).email = mail.to

VerifiedIssued ==
    /\ last.view = "verify"
    /\ last.req.token \in IssuedTokens
    /\ LinkUser(users, last.req.uidb64) = Ok(last.req.token.uid)

Thm_C6 ==
    [][ (/\ last'.view = "signup"
         /\ SignUpForm_errors(users, last'.req.email, last'.req.zip_code) # {})
        => /\ UNCHANGED <<users, zips, outbox>>
           /\ last'.effects = << >>
           /\ last'.resp = JsonResponse(None,
                  SignUpForm_errors(users, last'.req.email, last'.req.zip_code)) ]_vars

Wit_C6 ==
    /\ last.view = "signup"
    /\ last.resp.kind = "JsonResponse"
    /\ last.resp.redirect_url = None
    /\ \E e \in last.resp.errors : e.message = "A user with this email already exists."
    /\ \E pk \in Pks(users) : Row(users, pk).email = last.req.email

\* C7: a login with a well-formed email the supporter registry does not know
\* answers with JSON whose redirect_url is null and whose errors hold the
\* not-a-member message under email; no message is queued, no cookie set, no
\* User created or changed.
Thm_C7 ==
    [][ (/\ last'.view = "login"
         /\ last'.req.email \in ValidEmails
         /\ \A s \in registry : s.Email # last'.req.email)
        => /\ last'.resp = JsonResponse(None, { FieldError("email", NotSubscribed) })
           /\ last'.effects = << >>
           /\ UNCHANGED <<users, zips, outbox, registry, cookies,
                          authRequested, accepted, fpChanged>> ]_vars

Wit_C7 ==
    /\ last.view = "login"
    /\ last.req.email \in ValidEmails
    /\ last.req.next = None
    /\ last.resp = JsonResponse(None, { FieldError("email", NotSubscribed) })

\* C8: a login POST whose email is valid and found in the supporter registry
\* answers with JSON whose redirect_url is the authenticate endpoint and which
\* reports no errors, whatever other fields the POST carries, 'next' or not.
CE_C8 ==
    (/\ last.view = "login"
     /\ last.req.email \in ValidEmails
     /\ \E s \in registry : s.Email = last.req.email)
        => last.resp = JsonResponse(LoginRedirectUrl, {})

\* C9: in every reachable state, the states left behind by a failed signup
\* included, every User has exactly one UserZipCode.
CE_C9 ==
    \A pk \in Pks(users) :
        Cardinality({ i \in 1..Len(zips) : zips[i].user = pk }) = 1

====
